---------------------------- MODULE Spec2Model ----------------------------
(***************************************************************************)
(* State-machine model of the client-side behaviours of the site:          *)
(*   - ScrollReveal (frontend/app/components/ScrollReveal.tsx): the        *)
(*     data-reveal attribute of the wrapped element, the observers and     *)
(*     animation-frame callbacks each run of the effect creates;           *)
(*   - HeroSection (frontend/app/components/home/HeroSection.tsx): phase,  *)
(*     ball geometry and the chain of timers;                              *)
(*   - Header (frontend/app/components/Header.tsx): the mobile menu and    *)
(*     the scroll lock of the body;                                        *)
(*   - EventsGrid (frontend/app/components/compete/EventsGrid.tsx): the    *)
(*     active filter and the list it shows.                                *)
(* The browser is the environment: the reduced-motion media query, the     *)
(* presence of IntersectionObserver, animation frames, intersection        *)
(* notifications, the clock and the layout that measure() reads.           *)
(***************************************************************************)
EXTENDS Integers, Sequences, FiniteSets

VARIABLES
  reducedMotion,  \* window.matchMedia('(prefers-reduced-motion: reduce)').matches, now
  ioAvailable,    \* whether the IntersectionObserver constructor exists in this browser
  srStage,        \* per ScrollReveal instance: absent | rendered | mounted | unmounted | crashed
  direction,      \* per instance: the `direction` prop of the latest render
  dataReveal,     \* per instance: the element's data-reveal attribute ("unset" when absent)
  runs,           \* per instance: one record per run of the effect (observer, frame callbacks)
  reveals,        \* history: hidden -> visible changes since setup last assigned the hidden marker
  heroStage,      \* HeroSection: absent | rendered | mounted | unmounted
  heroReduced,    \* the value matchMedia(...).matches had when the HeroSection effect ran
  phase,          \* HeroSection: useState<Phase>
  ball,           \* HeroSection: useState<BallCfg>
  timers,         \* HeroSection: the `timers` array of the effect, one record per setTimeout
  lastRead,       \* what the latest call of measure() read: <<>> before any call, else <<pr, sr>>
  now,            \* the clock, in ms since the HeroSection effect ran
  lates,          \* how many times the clock has run on without a timer firing on time
  headerStage,    \* Header: absent | rendered | mounted | unmounted
  mobileOpen,     \* Header: useState(false)
  effectSeen,     \* the value of mobileOpen the latest run of the Header effect saw
  bodyOverflow,   \* document.body.style.overflow
  events,         \* EventsGrid: the `events` prop
  activeFilter,   \* EventsGrid: useState<FilterKey>
  lastClick       \* history: the filter tab clicked last ("none" before any click)

srVars   == <<srStage, direction, dataReveal, runs, reveals>>
heroVars == <<heroStage, heroReduced, phase, ball, timers, lastRead, now, lates>>
envVars  == <<reducedMotion, ioAvailable>>
uiVars   == <<headerStage, mobileOpen, effectSeen, bodyOverflow, events, activeFilter, lastClick>>
vars     == <<envVars, srVars, heroVars, uiVars>>

(***************************************************************************)
(* Bounds of the model.                                                    *)
(***************************************************************************)
NumReveal == 2   \* ScrollReveal instances a page may hold
MaxRuns   == 3   \* runs of the effect per ScrollReveal instance (mount + re-renders)
MaxLates  == 2   \* times the clock may run on past what is due
LateMs    == 50  \* by how much, each time
TickMs    == 10  \* step of the clock when callbacks run on time
HorizonMs == 3400  \* how far that clock runs
MaxEvents == 2   \* length of the list of events a page is given

SRIds == 1 .. NumReveal

Directions == {"left", "right"}

--------------------------------------------------------------------------
(***************************************************************************)
(* ScrollReveal                                                            *)
(***************************************************************************)

\* What one run of the effect leaves behind: the `direction` it closed over,
\* the value the media query had,
\* the observer it constructed ("none" | "idle" | "observing": whether `el`
\* is among its targets) and its double requestAnimationFrame
\* ("none" | "first" | "second" | "ran": the callback still to run).
SkippedRun(d) ==
  [direction |-> d, reduced |-> TRUE,  observer |-> "none", raf |-> "none"]
FailedRun(d) ==
  [direction |-> d, reduced |-> FALSE, observer |-> "none", raf |-> "none"]
StartedRun(d) ==
  [direction |-> d, reduced |-> FALSE, observer |-> "idle", raf |-> "first"]

\* The cleanup the latest run of the effect returned: observer.disconnect().
\* A run that returned early (reduced motion) returned no cleanup.
Disconnect(r) ==
  IF r.observer = "none" THEN r ELSE [r EXCEPT !.observer = "idle"]

CleanupLatest(rs) ==
  IF rs = <<>> THEN rs
  ELSE [rs EXCEPT ![Len(rs)] = Disconnect(rs[Len(rs)])]

\* An effect that assigns the hidden marker before it asks for the preference.
RunEffectMarkFirst(i, d, rs) ==
  /\ dataReveal' = [dataReveal EXCEPT ![i] = d]
  /\ reveals' = [reveals EXCEPT ![i] = 0]
  /\ runs' = [runs EXCEPT ![i] =
                Append(rs, IF reducedMotion THEN SkippedRun(d)
                           ELSE IF ioAvailable THEN StartedRun(d) ELSE FailedRun(d))]
  /\ srStage' = [srStage EXCEPT ![i] =
                   IF ~reducedMotion /\ ~ioAvailable THEN "crashed" ELSE "mounted"]

\* The body of the effect for instance i with prop d, after the cleanup of
\* the previous run (rs is the list of runs after that cleanup).
RunEffect(i, d, rs) ==
  IF reducedMotion
  THEN /\ runs' = [runs EXCEPT ![i] = Append(rs, SkippedRun(d))]
       /\ UNCHANGED <<dataReveal, reveals>>
       /\ srStage' = [srStage EXCEPT ![i] = "mounted"]
  ELSE IF ~ioAvailable
  THEN \* setAttribute has run when `new IntersectionObserver` throws
       /\ dataReveal' = [dataReveal EXCEPT ![i] = d]
       /\ reveals' = [reveals EXCEPT ![i] = 0]
       /\ runs' = [runs EXCEPT ![i] = Append(rs, FailedRun(d))]
       /\ srStage' = [srStage EXCEPT ![i] = "crashed"]
  ELSE /\ dataReveal' = [dataReveal EXCEPT ![i] = d]
       /\ reveals' = [reveals EXCEPT ![i] = 0]
       /\ runs' = [runs EXCEPT ![i] = Append(rs, StartedRun(d))]
       /\ srStage' = [srStage EXCEPT ![i] = "mounted"]

\* First run of the effect, after the first render.
SRMount(i) ==
  /\ srStage[i] = "rendered"
  /\ RunEffect(i, direction[i], runs[i])
  /\ UNCHANGED <<direction, envVars, heroVars, uiVars>>

\* A re-render with another `direction`: the dependency changed, so the
\* previous run's cleanup runs and then the effect again.
SRChangeDirection(i, d) ==
  /\ srStage[i] = "mounted"
  /\ d # direction[i]
  /\ Len(runs[i]) < MaxRuns
  /\ direction' = [direction EXCEPT ![i] = d]
  /\ RunEffect(i, d, CleanupLatest(runs[i]))
  /\ UNCHANGED <<envVars, heroVars, uiVars>>

\* One animation-frame callback of run k: the outer one requests the inner
\* one, the inner one calls observer.observe(el). Nothing cancels them.
FrameStep(r) ==
  IF r.raf = "first" THEN [r EXCEPT !.raf = "second"]
  ELSE [r EXCEPT !.raf = "ran", !.observer = "observing"]

SRFrame(i, k) ==
  /\ k \in 1 .. Len(runs[i])
  /\ runs[i][k].raf \in {"first", "second"}
  /\ runs' = [runs EXCEPT ![i][k] = FrameStep(runs[i][k])]
  /\ UNCHANGED <<srStage, direction, dataReveal, reveals, envVars, heroVars, uiVars>>

\* A callback that also hides again when the element leaves the viewport.
NotifyMarkerToggle(m, d, isIntersecting) ==
  IF isIntersecting THEN "visible" ELSE d

\* The observer callback of run k, given entry.isIntersecting: the attribute
\* it leaves on `el` (m before the call, d the `direction` of its closure).
NotifyMarker(m, d, isIntersecting) ==
  IF isIntersecting THEN "visible" ELSE m

NotifyRun(r, isIntersecting) ==
  IF isIntersecting THEN [r EXCEPT !.observer = "idle"] ELSE r

\* An element that is no longer in the document never intersects.
SRNotify(i, k, isIntersecting) ==
  /\ k \in 1 .. Len(runs[i])
  /\ runs[i][k].observer = "observing"
  /\ isIntersecting => srStage[i] = "mounted"
  /\ dataReveal' = [dataReveal EXCEPT ![i] = NotifyMarker(dataReveal[i], runs[i][k].direction, isIntersecting)]
  /\ runs' = [runs EXCEPT ![i][k] = NotifyRun(runs[i][k], isIntersecting)]
  /\ reveals' = [reveals EXCEPT ![i] =
                   IF dataReveal[i] \in Directions /\ dataReveal'[i] = "visible"
                   THEN @ + 1 ELSE @]
  /\ UNCHANGED <<srStage, direction, envVars, heroVars, uiVars>>

\* An unmount whose cleanup disconnects the observers of the whole page, as
\* one observer shared by all instances would.
SRUnmountShared(i) ==
  /\ srStage[i] = "mounted"
  /\ srStage' = [srStage EXCEPT ![i] = "unmounted"]
  /\ runs' = [j \in SRIds |-> CleanupLatest(runs[j])]
  /\ UNCHANGED <<direction, dataReveal, reveals, envVars, heroVars, uiVars>>

\* Unmount: the cleanup of the latest run.
SRUnmount(i) ==
  /\ srStage[i] = "mounted"
  /\ srStage' = [srStage EXCEPT ![i] = "unmounted"]
  /\ runs' = [runs EXCEPT ![i] = CleanupLatest(runs[i])]
  /\ UNCHANGED <<direction, dataReveal, reveals, envVars, heroVars, uiVars>>

\* The user changes the OS / browser setting.
ToggleReducedMotion ==
  /\ reducedMotion' = ~reducedMotion
  /\ UNCHANGED <<ioAvailable, srVars, heroVars, uiVars>>

--------------------------------------------------------------------------
(***************************************************************************)
(* HeroSection                                                             *)
(* Lengths are whole pixels, except `top`, `targetX` and a style's `left`, *)
(* which are in half pixels (twice the CSS value): (pr.height - size) / 2  *)
(* need not be whole.                                                      *)
(***************************************************************************)

MeasureDelay == 80     \* setTimeout(..., 80)
StartDelay   == 1400   \* setTimeout(..., 1400)
RollDelay    == 1450   \* setTimeout(..., 1450)
DropDelay    == 420    \* setTimeout(..., 420)
MinSize      == 12     \* Math.max(..., 12)
StartGap     == 16     \* -(size + 16)

\* A default geometry that starts inside the container.
DefaultBallInside == [size |-> 32, top |-> 2 * 0, startX |-> -16, targetX |-> 2 * 0]

DefaultBall == [size |-> 32, top |-> 2 * 0, startX |-> -60, targetX |-> 2 * 0]

\* What getBoundingClientRect() may return for the period span (pr) and the
\* section (sr); <<>> stands for a ref whose .current is null.
PeriodRects ==
  [height : {10, 30, 40}, width : {9, 20}, top : {100}, left : {300}]
SectionRects == [top : {0, 50}, left : {0, 20}]
PeriodReads  == {<<>>} \cup {<<r>> : r \in PeriodRects}
SectionReads == {<<>>} \cup {<<r>> : r \in SectionRects}

Max(a, b) == IF a >= b THEN a ELSE b

\* Math.round(x * 0.45) for a whole x >= 0: halves round up.
Round45(x) == (x * 45 + 50) \div 100

\* A measure() without the floor of 12.
measureNoFloor(prRead, srRead) ==
  IF prRead = <<>> \/ srRead = <<>> THEN <<>>
  ELSE LET pr   == prRead[1]
           sr   == srRead[1]
           size == Round45(pr.height)
       IN  << [size    |-> size,
               top     |-> 2 * (pr.top - sr.top) + (pr.height - size),
               startX  |-> -(size + StartGap),
               targetX |-> 2 * (pr.left - sr.left) + (pr.width - size)] >>

\* A measure() that falls back to a zero geometry instead of null.
measureZero(prRead, srRead) ==
  IF prRead = <<>> \/ srRead = <<>>
  THEN << [size |-> MinSize, top |-> 0, startX |-> -(MinSize + StartGap), targetX |-> 0] >>
  ELSE LET pr   == prRead[1]
           sr   == srRead[1]
           size == Max(Round45(pr.height), MinSize)
       IN  << [size    |-> size,
               top     |-> 2 * (pr.top - sr.top) + (pr.height - size),
               startX  |-> -(size + StartGap),
               targetX |-> 2 * (pr.left - sr.left) + (pr.width - size)] >>

\* A measure() with the sign of the gap slipped: startX = -(size - 16).
measureStartInside(prRead, srRead) ==
  IF prRead = <<>> \/ srRead = <<>> THEN <<>>
  ELSE LET pr   == prRead[1]
           sr   == srRead[1]
           size == Max(Round45(pr.height), MinSize)
       IN  << [size    |-> size,
               top     |-> 2 * (pr.top - sr.top) + (pr.height - size),
               startX  |-> -(size - StartGap),
               targetX |-> 2 * (pr.left - sr.left) + (pr.width - size)] >>

\* A measure() that takes viewport coordinates for the container's.
measureNoContainer(prRead, srRead) ==
  IF prRead = <<>> \/ srRead = <<>> THEN <<>>
  ELSE LET pr   == prRead[1]
           size == Max(Round45(pr.height), MinSize)
       IN  << [size    |-> size,
               top     |-> 2 * pr.top + (pr.height - size),
               startX  |-> -(size + StartGap),
               targetX |-> 2 * pr.left + (pr.width - size)] >>

\* measure(): <<>> for null, otherwise <<the BallCfg>>.
measure(prRead, srRead) ==
  IF prRead = <<>> \/ srRead = <<>> THEN <<>>
  ELSE LET pr   == prRead[1]
           sr   == srRead[1]
           size == Max(Round45(pr.height), MinSize)
       IN  << [size    |-> size,
               top     |-> 2 * (pr.top - sr.top) + (pr.height - size),
               startX  |-> -(size + StartGap),
               targetX |-> 2 * (pr.left - sr.left) + (pr.width - size)] >>

Timer(cb, delay) == [cb |-> cb, due |-> now + delay, state |-> "pending"]

Pending(ts) == {k \in 1 .. Len(ts) : ts[k].state = "pending"}

\* The browser runs the callbacks of due timers in the order of their due
\* times, and in the order of the setTimeout calls when these are equal.
IsNextTimer(k) ==
  /\ k \in Pending(timers)
  /\ timers[k].due <= now
  /\ \A j \in Pending(timers) :
       j # k => \/ timers[j].due > timers[k].due
                \/ (timers[j].due = timers[k].due /\ j > k)

Fired(ts, k) == [ts EXCEPT ![k].state = "fired"]

\* An effect whose first measurement is set later than the start.
MountTimersMeasureLast ==
  << Timer("measure", StartDelay + MeasureDelay), Timer("start", StartDelay) >>

\* An effect whose first measurement is set for after the whole sequence.
MountTimersMeasureAfterAll ==
  << Timer("measure", StartDelay + RollDelay + DropDelay + MeasureDelay),
     Timer("start", StartDelay) >>

\* The timers the effect creates when it runs.
MountTimers == << Timer("measure", MeasureDelay), Timer("start", StartDelay) >>

\* An effect that never asks for the preference.
HeroMountAlways ==
  /\ heroStage = "rendered"
  /\ heroStage' = "mounted"
  /\ heroReduced' = reducedMotion
  /\ timers' = MountTimers
  /\ UNCHANGED <<phase, ball, lastRead, now, lates, envVars, srVars, uiVars>>

\* The effect, once after the first render.
HeroMount ==
  /\ heroStage = "rendered"
  /\ heroStage' = "mounted"
  /\ heroReduced' = reducedMotion
  /\ timers' = IF reducedMotion THEN timers ELSE MountTimers
  /\ UNCHANGED <<phase, ball, lastRead, now, lates, envVars, srVars, uiVars>>

\* The 80 ms callback: const m = measure(); if (m) setBall(m)
HeroMeasureTimer(k, prRead, srRead) ==
  /\ IsNextTimer(k)
  /\ timers[k].cb = "measure"
  /\ LET m == measure(prRead, srRead)
     IN  ball' = IF m = <<>> THEN ball ELSE m[1]
  /\ timers' = Fired(timers, k)
  /\ lastRead' = <<prRead, srRead>>
  /\ UNCHANGED <<heroStage, heroReduced, phase, now, lates, envVars, srVars, uiVars>>

\* A 1400 ms callback that sets the next timer with the delay of the last.
StartOutcomeShortRoll(m, k) ==
  IF m = <<>>
  THEN [ball |-> ball, phase |-> phase, timers |-> Fired(timers, k)]
  ELSE [ball |-> m[1], phase |-> "rolling",
        timers |-> Append(Fired(timers, k), Timer("drop", DropDelay))]

\* A 1400 ms callback that sets both remaining timers itself.
StartOutcomeParallel(m, k) ==
  IF m = <<>>
  THEN [ball |-> ball, phase |-> phase, timers |-> Fired(timers, k)]
  ELSE [ball |-> m[1], phase |-> "rolling",
        timers |-> Append(Append(Fired(timers, k), Timer("drop", RollDelay)),
                          Timer("finish", RollDelay + DropDelay))]

\* A 1400 ms callback that starts the roll on whatever geometry is there.
StartOutcomeStale(m, k) ==
  [ball |-> ball, phase |-> "rolling",
   timers |-> Append(Fired(timers, k), Timer("drop", RollDelay))]

\* The 1400 ms callback.
StartOutcome(m, k) ==
  IF m = <<>>
  THEN [ball |-> ball, phase |-> phase, timers |-> Fired(timers, k)]
  ELSE [ball |-> m[1], phase |-> "rolling",
        timers |-> Append(Fired(timers, k), Timer("drop", RollDelay))]

HeroStartTimer(k, prRead, srRead) ==
  /\ IsNextTimer(k)
  /\ timers[k].cb = "start"
  /\ LET o == StartOutcome(measure(prRead, srRead), k)
     IN  /\ ball' = o.ball
         /\ phase' = o.phase
         /\ timers' = o.timers
  /\ lastRead' = <<prRead, srRead>>
  /\ UNCHANGED <<heroStage, heroReduced, now, lates, envVars, srVars, uiVars>>

\* A 1450 ms callback that removes the ball at once.
DropOutcomeSkip(k) ==
  [ball |-> ball, phase |-> "done", timers |-> Fired(timers, k)]

\* The 1450 ms callback, created by the 1400 ms one.
DropOutcome(k) ==
  [ball |-> ball, phase |-> "dropping",
   timers |-> Append(Fired(timers, k), Timer("finish", DropDelay))]

HeroDropTimer(k) ==
  /\ IsNextTimer(k)
  /\ timers[k].cb = "drop"
  /\ LET o == DropOutcome(k)
     IN  /\ ball' = o.ball
         /\ phase' = o.phase
         /\ timers' = o.timers
  /\ UNCHANGED <<heroStage, heroReduced, lastRead, now, lates, envVars, srVars, uiVars>>

\* The 420 ms callback, created by the 1450 ms one.
HeroDoneTimer(k) ==
  /\ IsNextTimer(k)
  /\ timers[k].cb = "finish"
  /\ phase' = "done"
  /\ timers' = Fired(timers, k)
  /\ UNCHANGED <<heroStage, heroReduced, ball, lastRead, now, lates, envVars, srVars, uiVars>>

\* A cleanup that clears only the two timers the effect itself created.
HeroCleanupMountOnly(ts) ==
  [k \in 1 .. Len(ts) |->
     IF ts[k].state = "pending" /\ k <= 2
     THEN [ts[k] EXCEPT !.state = "cleared"] ELSE ts[k]]

\* The cleanup the effect returned: timers.forEach(clearTimeout). The run
\* that returned early under reduced motion returned none.
HeroCleanup(ts) ==
  [k \in 1 .. Len(ts) |->
     IF ts[k].state = "pending" THEN [ts[k] EXCEPT !.state = "cleared"] ELSE ts[k]]

HeroUnmount ==
  /\ heroStage = "mounted"
  /\ heroStage' = "unmounted"
  /\ timers' = IF heroReduced THEN timers ELSE HeroCleanup(timers)
  /\ UNCHANGED <<heroReduced, phase, ball, lastRead, now, lates, envVars, srVars, uiVars>>

\* The clock runs to the next instant a timer was set for (it fires then, or
\* would have, had it not been cleared).
NextDue ==
  {timers[k].due : k \in {j \in 1 .. Len(timers) : timers[j].state # "fired"}}
    \ (0 .. now)

HeroAdvance ==
  /\ NextDue # {}
  /\ now' = CHOOSE t \in NextDue : \A u \in NextDue : t <= u
  /\ UNCHANGED <<heroStage, heroReduced, phase, ball, timers, lastRead, lates, envVars, srVars, uiVars>>

\* The clock runs on although nothing has become due (a busy main thread
\* delays the callbacks; after unmount, time simply passes).
HeroLate ==
  /\ heroStage \in {"mounted", "unmounted"}
  /\ lates < MaxLates
  /\ lates' = lates + 1
  /\ now' = now + LateMs
  /\ UNCHANGED <<heroStage, heroReduced, phase, ball, timers, lastRead, envVars, srVars, uiVars>>

Min(a, b) == IF a <= b THEN a ELSE b

\* The clock of a run in which every callback runs at the instant it was set
\* for (fake timers): it steps by TickMs, stops at each due time, and does
\* not move on while a due callback has not run.
HeroTick ==
  /\ heroStage = "mounted"
  /\ now < HorizonMs
  /\ \A k \in Pending(timers) : timers[k].due > now
  /\ now' = IF Pending(timers) = {} THEN now + TickMs
            ELSE Min(now + TickMs,
                     CHOOSE t \in NextDue : \A u \in NextDue : t <= u)
  /\ UNCHANGED <<heroStage, heroReduced, phase, ball, timers, lastRead, lates, envVars, srVars, uiVars>>

\* The render: {phase !== 'done' && <div style={wrapStyle()} ...>}
OverlayRendered == phase # "done"

\* A style that shows the ball while idle.
wrapStyleOpaqueIdle ==
  CASE phase \in {"idle", "rolling"} ->
         [display |-> "block",
          left |-> IF phase = "idle" THEN 2 * ball.startX ELSE ball.targetX,
          opacity |-> 1]
    [] phase = "dropping" -> [display |-> "block", left |-> ball.targetX, opacity |-> 0]
    [] OTHER              -> [display |-> "none", left |-> 0, opacity |-> 0]

\* A style that sends the ball back to where it started as it drops.
wrapStyleDropAtStart ==
  CASE phase = "idle"     -> [display |-> "block", left |-> 2 * ball.startX, opacity |-> 0]
    [] phase = "rolling"  -> [display |-> "block", left |-> ball.targetX, opacity |-> 1]
    [] phase = "dropping" -> [display |-> "block", left |-> 2 * ball.startX, opacity |-> 0]
    [] OTHER              -> [display |-> "none", left |-> 0, opacity |-> 0]

\* wrapStyle(): display, left and opacity of the style it returns.
wrapStyle ==
  CASE phase = "idle"     -> [display |-> "block", left |-> 2 * ball.startX, opacity |-> 0]
    [] phase = "rolling"  -> [display |-> "block", left |-> ball.targetX, opacity |-> 1]
    [] phase = "dropping" -> [display |-> "block", left |-> ball.targetX, opacity |-> 0]
    [] OTHER              -> [display |-> "none", left |-> 0, opacity |-> 0]

--------------------------------------------------------------------------
(***************************************************************************)
(* Header                                                                  *)
(***************************************************************************)

\* A scroll lock that is on while the menu is closed.
ScrollLockInverted(open) == IF open THEN "" ELSE "hidden"

\* The body of the effect: document.body.style.overflow = mobileOpen ? 'hidden' : ''
ScrollLock(open) == IF open THEN "hidden" ELSE ""

\* The first run of the effect, after the first render.
HeaderMount ==
  /\ headerStage = "rendered"
  /\ headerStage' = "mounted"
  /\ bodyOverflow' = ScrollLock(mobileOpen)
  /\ effectSeen' = mobileOpen
  /\ UNCHANGED <<mobileOpen, events, activeFilter, lastClick, envVars, srVars, heroVars>>

\* The hamburger button: setMobileOpen((prev) => !prev)
HeaderToggle ==
  /\ headerStage = "mounted"
  /\ mobileOpen' = ~mobileOpen
  /\ UNCHANGED <<headerStage, effectSeen, bodyOverflow, events, activeFilter, lastClick,
                 envVars, srVars, heroVars>>

\* What carries onClick={closeMenu}. The backdrop and the links of the panel
\* take no click while the menu is closed (pointer-events-none).
CloseSources == {"logo", "backdrop", "link", "cta"}

\* closeMenu: setMobileOpen(false)
HeaderCloseMenu(src) ==
  /\ headerStage = "mounted"
  /\ src # "logo" => mobileOpen
  /\ mobileOpen' = FALSE
  /\ UNCHANGED <<headerStage, effectSeen, bodyOverflow, events, activeFilter, lastClick,
                 envVars, srVars, heroVars>>

\* mobileOpen has changed since the effect last ran: React runs the previous
\* cleanup (overflow = '') and then the effect again.
HeaderEffect ==
  /\ headerStage = "mounted"
  /\ effectSeen # mobileOpen
  /\ bodyOverflow' = ScrollLock(mobileOpen)
  /\ effectSeen' = mobileOpen
  /\ UNCHANGED <<headerStage, mobileOpen, events, activeFilter, lastClick,
                 envVars, srVars, heroVars>>

\* Unmount: the cleanup of the latest run, document.body.style.overflow = ''
HeaderUnmount ==
  /\ headerStage = "mounted"
  /\ headerStage' = "unmounted"
  /\ bodyOverflow' = ""
  /\ UNCHANGED <<mobileOpen, effectSeen, events, activeFilter, lastClick,
                 envVars, srVars, heroVars>>

--------------------------------------------------------------------------
(***************************************************************************)
(* EventsGrid                                                              *)
(* An event is [id, status]; status is <<>> for null and <<s>> for the     *)
(* string s.                                                               *)
(***************************************************************************)

FilterKeys == {"all", "upcoming", "past"}

UPCOMING_STATUSES == {"upcoming", "registration_open", "waitlist"}
PAST_STATUSES     == {"completed", "cancelled"}

\* What the query may give as status: the five of EventStatus, another
\* string, the empty string, null.
StatusValues ==
  {<<>>} \cup {<<s>> : s \in UPCOMING_STATUSES \cup PAST_STATUSES \cup {"postponed", ""}}

EventLists ==
  UNION {[1 .. n -> StatusValues] : n \in 0 .. MaxEvents}

EventsOf(sts) == [k \in 1 .. Len(sts) |-> [id |-> k, status |-> sts[k]]]

\* `e.status ? ... : ...`: null and the empty string are falsy.
Truthy(status) == status # <<>> /\ status[1] # ""

\* A filter that files an event without status under 'past'.
ShowsMissingAsPast(f, e) ==
  CASE f = "all"      -> TRUE
    [] f = "upcoming" -> IF Truthy(e.status) THEN e.status[1] \in UPCOMING_STATUSES ELSE FALSE
    [] f = "past"     -> IF Truthy(e.status) THEN e.status[1] \in PAST_STATUSES ELSE TRUE
    [] OTHER          -> TRUE

\* The callback of events.filter under the filter f.
Shows(f, e) ==
  CASE f = "all"      -> TRUE
    [] f = "upcoming" -> IF Truthy(e.status) THEN e.status[1] \in UPCOMING_STATUSES ELSE TRUE
    [] f = "past"     -> IF Truthy(e.status) THEN e.status[1] \in PAST_STATUSES ELSE FALSE
    [] OTHER          -> TRUE

ShowsActive(e) == Shows(activeFilter, e)

filtered == SelectSeq(events, ShowsActive)

isEmpty == Len(filtered) = 0

\* The render: the empty-state panel or the grid of cards.
GridRender ==
  IF isEmpty THEN [panel |-> TRUE, cards |-> <<>>]
  ELSE [panel |-> FALSE, cards |-> [j \in 1 .. Len(filtered) |-> filtered[j].id]]

\* A filter tab: onClick={() => setActiveFilter(key)}
GridClickFilter(key) ==
  /\ activeFilter' = key
  /\ lastClick' = key
  /\ UNCHANGED <<events, headerStage, mobileOpen, effectSeen, bodyOverflow,
                 envVars, srVars, heroVars>>

--------------------------------------------------------------------------
(***************************************************************************)
(* Initial states and specifications                                       *)
(***************************************************************************)

InitEnv ==
  /\ reducedMotion \in BOOLEAN
  /\ ioAvailable \in BOOLEAN

InitSRWith(present) ==
  /\ srStage = [i \in SRIds |-> IF i \in present THEN "rendered" ELSE "absent"]
  /\ direction \in [SRIds -> Directions]
  /\ \A i \in SRIds \ present : direction[i] = "left"
  /\ dataReveal = [i \in SRIds |-> "unset"]
  /\ runs = [i \in SRIds |-> <<>>]
  /\ reveals = [i \in SRIds |-> 0]

InitHeroAbsent ==
  /\ heroStage = "absent"
  /\ heroReduced = FALSE
  /\ phase = "idle"
  /\ ball = DefaultBall
  /\ timers = <<>>
  /\ lastRead = <<>>
  /\ now = 0
  /\ lates = 0

\* No Header and no EventsGrid in the page.
InitUIAbsent ==
  /\ headerStage = "absent"
  /\ mobileOpen = FALSE
  /\ effectSeen = FALSE
  /\ bodyOverflow = ""
  /\ events = <<>>
  /\ activeFilter = "upcoming"
  /\ lastClick = "none"

InitSR == InitEnv /\ InitSRWith({1}) /\ InitHeroAbsent /\ InitUIAbsent

NextSR ==
  \/ \E i \in SRIds : SRMount(i)
  \/ \E i \in SRIds, d \in Directions : SRChangeDirection(i, d)
  \/ \E i \in SRIds, k \in 1 .. MaxRuns : SRFrame(i, k)
  \/ \E i \in SRIds, k \in 1 .. MaxRuns, b \in BOOLEAN : SRNotify(i, k, b)
  \/ \E i \in SRIds : SRUnmount(i)
  \/ ToggleReducedMotion

\* A page with one ScrollReveal instance.
SpecSR == InitSR /\ [][NextSR]_vars

InitHeroRendered ==
  /\ heroStage = "rendered"
  /\ heroReduced = FALSE
  /\ phase = "idle"
  /\ ball = DefaultBall
  /\ timers = <<>>
  /\ lastRead = <<>>
  /\ now = 0
  /\ lates = 0

InitHero == InitEnv /\ InitSRWith({}) /\ InitHeroRendered /\ InitUIAbsent

NextHero ==
  \/ HeroMount
  \/ \E k \in 1 .. 4, p \in PeriodReads, s \in SectionReads : HeroMeasureTimer(k, p, s)
  \/ \E k \in 1 .. 4, p \in PeriodReads, s \in SectionReads : HeroStartTimer(k, p, s)
  \/ \E k \in 1 .. 4 : HeroDropTimer(k)
  \/ \E k \in 1 .. 4 : HeroDoneTimer(k)
  \/ HeroUnmount
  \/ HeroAdvance
  \/ HeroLate
  \/ ToggleReducedMotion

\* A page with the HeroSection.
SpecHero == InitHero /\ [][NextHero]_vars

\* The end-to-end scenario: reduced motion off at mount, a 40 px high target
\* that every measurement finds, callbacks on time, no unmount.
ScenarioPeriodReads == {<<r>> : r \in {q \in PeriodRects : q.height = 40}}
ScenarioSectionReads == {<<r>> : r \in SectionRects}

InitHeroExact == InitHero /\ ~reducedMotion

NextHeroExact ==
  \/ HeroMount
  \/ \E k \in 1 .. 4, p \in ScenarioPeriodReads, s \in ScenarioSectionReads :
       HeroMeasureTimer(k, p, s)
  \/ \E k \in 1 .. 4, p \in ScenarioPeriodReads, s \in ScenarioSectionReads :
       HeroStartTimer(k, p, s)
  \/ \E k \in 1 .. 4 : HeroDropTimer(k)
  \/ \E k \in 1 .. 4 : HeroDoneTimer(k)
  \/ HeroTick
  \/ (heroStage = "mounted" /\ ToggleReducedMotion)

SpecHeroExact == InitHeroExact /\ [][NextHeroExact]_vars

\* A page that holds two ScrollReveal instances and the HeroSection together
\* (the home page). The `direction` props are fixed, and the layout is either
\* not there yet or is one box.
PagePeriodReads  == {<<>>} \cup {<<r>> : r \in {q \in PeriodRects : q.height = 30 /\ q.width = 9}}
PageSectionReads == {<<>>} \cup {<<r>> : r \in {q \in SectionRects : q.top = 50 /\ q.left = 20}}

InitPage == InitEnv /\ InitSRWith({1, 2}) /\ InitHeroRendered /\ InitUIAbsent

NextPage ==
  \/ \E i \in SRIds : SRMount(i)
  \/ \E i \in SRIds, k \in 1 .. MaxRuns : SRFrame(i, k)
  \/ \E i \in SRIds, k \in 1 .. MaxRuns, b \in BOOLEAN : SRNotify(i, k, b)
  \/ \E i \in SRIds : SRUnmount(i)
  \/ HeroMount
  \/ \E k \in 1 .. 4, p \in PagePeriodReads, s \in PageSectionReads : HeroMeasureTimer(k, p, s)
  \/ \E k \in 1 .. 4, p \in PagePeriodReads, s \in PageSectionReads : HeroStartTimer(k, p, s)
  \/ \E k \in 1 .. 4 : HeroDropTimer(k)
  \/ \E k \in 1 .. 4 : HeroDoneTimer(k)
  \/ HeroUnmount
  \/ HeroAdvance

SpecPage == InitPage /\ [][NextPage]_vars

\* The /compete page: the Header of the layout and the EventsGrid, given any
\* list of events; no ScrollReveal, no HeroSection.
InitCompete ==
  /\ reducedMotion = FALSE
  /\ ioAvailable = TRUE
  /\ InitSRWith({})
  /\ InitHeroAbsent
  /\ headerStage = "rendered"
  /\ mobileOpen = FALSE
  /\ effectSeen = FALSE
  /\ bodyOverflow = ""
  /\ \E sts \in EventLists : events = EventsOf(sts)
  /\ activeFilter = "upcoming"
  /\ lastClick = "none"

NextCompete ==
  \/ HeaderMount
  \/ HeaderToggle
  \/ \E src \in CloseSources : HeaderCloseMenu(src)
  \/ HeaderEffect
  \/ HeaderUnmount
  \/ \E key \in FilterKeys : GridClickFilter(key)

SpecCompete == InitCompete /\ [][NextCompete]_vars

--------------------------------------------------------------------------
(***************************************************************************)
(* Properties                                                              *)
(***************************************************************************)

Hidden(i) == dataReveal[i] \in Directions

\* The CSS hides the content only under data-reveal="left" / "right".
ContentVisible(i) == ~Hidden(i)

NotifyStep(i) ==
  \E k \in 1 .. MaxRuns, b \in BOOLEAN : SRNotify(i, k, b)

C2_VisibleForever ==
  [][\A i \in SRIds : dataReveal[i] = "visible" => dataReveal'[i] = "visible"]_vars

\* C3: as long as every run of an instance's effect found reduced motion
\* set, the marker is unset (the content is shown), no observer exists and no
\* animation frame is requested; and a run that finds it set assigns nothing.
C3_ReducedMotionStatic ==
  /\ [](\A i \in SRIds :
          (\A k \in 1 .. Len(runs[i]) : runs[i][k].reduced) =>
            /\ dataReveal[i] = "unset"
            /\ ContentVisible(i)
            /\ \A k \in 1 .. Len(runs[i]) :
                 runs[i][k].observer = "none" /\ runs[i][k].raf = "none")
  /\ [][\A i \in SRIds :
          (Len(runs'[i]) > Len(runs[i]) /\ reducedMotion) =>
            /\ dataReveal'[i] = dataReveal[i]
            /\ runs'[i][Len(runs'[i])].observer = "none"
            /\ runs'[i][Len(runs'[i])].raf = "none"]_vars

\* An instance set up twice under reduced motion (for either direction),
\* still static after the preference was switched off.
C3_Witness ==
  \E i \in SRIds :
    /\ srStage[i] = "mounted"
    /\ Len(runs[i]) = 2
    /\ runs[i][1].reduced /\ runs[i][2].reduced
    /\ ~reducedMotion
    /\ dataReveal[i] = "unset"

\* C4: after unmount no observer of the instance observes the element (no
\* pending animation-frame callback starts observation after unmount).
C4_QuietAfterUnmount ==
  \A i \in SRIds :
    srStage[i] = "unmounted" =>
      \A k \in 1 .. Len(runs[i]) : runs[i][k].observer # "observing"

\* C5: without IntersectionObserver the setup does not throw and the element
\* does not carry the hidden marker.
C5_DegradesToVisible ==
  ~ioAvailable =>
    \A i \in SRIds : srStage[i] # "crashed" /\ ContentVisible(i)

PhaseSteps ==
  {<<"idle", "rolling">>, <<"rolling", "dropping">>, <<"dropping", "done">>}

\* C6: phase starts idle and every change of phase is the next step of
\* idle -> rolling -> dropping -> done, so the phases observed are a prefix
\* of that list.
C6_PhaseOrder ==
  /\ phase = "idle"
  /\ [][phase' # phase => <<phase, phase'>> \in PhaseSteps]_vars

\* The whole sequence has been run through, with callbacks that ran late.
C6_Witness == phase = "done" /\ lates > 0 /\ heroStage = "mounted"

\* C7: after unmount no timer is pending, and no step changes phase, ball
\* or the timers, however far the clock runs.
C7_NoOrphanTimer ==
  /\ [](heroStage = "unmounted" => Pending(timers) = {})
  /\ [][heroStage = "unmounted" =>
          phase' = phase /\ ball' = ball /\ timers' = timers]_vars

\* Unmounted while rolling; the clock has passed the time the timer created
\* inside the 1400 ms callback was set for.
C7_Witness ==
  /\ heroStage = "unmounted"
  /\ phase = "rolling"
  /\ Len(timers) = 3
  /\ timers[3].state = "cleared"
  /\ now >= timers[3].due

\* C8: once phase has left idle, no step changes targetX or startX.
C8_GeometryFrozen ==
  [][phase # "idle" =>
       ball'.targetX = ball.targetX /\ ball'.startX = ball.startX]_vars

\* The sequence ran to the end on a geometry measured at the transition,
\* different from the one the 80 ms callback would have left.
C8_Witness ==
  /\ phase = "done"
  /\ Len(timers) = 4
  /\ ball.startX # DefaultBall.startX
  /\ lates > 0

\* C9: when the effect found reduced motion set, no timer is ever created
\* (so measure() is never called), phase stays idle and ball keeps its
\* default.
C9_ReducedMotionIdle ==
  (heroStage \in {"mounted", "unmounted"} /\ heroReduced) =>
    timers = <<>> /\ phase = "idle" /\ ball = DefaultBall

\* Mounted under reduced motion, the preference switched off afterwards, and
\* the clock past the first delay.
C9_Witness ==
  /\ heroStage = "mounted"
  /\ heroReduced
  /\ ~reducedMotion
  /\ now > MeasureDelay

\* C10 as stated: under reduced motion at mount the ball overlay is not in
\* the render tree.
C10_OverlayAbsent ==
  (heroStage = "mounted" /\ heroReduced) => ~OverlayRendered

\* C10 as amended: under reduced motion at mount the ball overlay stays in
\* the render tree with the idle style: left = startX = -60 px, opacity 0.
C10_OverlayInvisible ==
  (heroStage = "mounted" /\ heroReduced) =>
    /\ OverlayRendered
    /\ wrapStyle.display = "block"
    /\ wrapStyle.opacity = 0
    /\ wrapStyle.left = 2 * (-60)

C10_Witness ==
  /\ heroStage = "mounted"
  /\ heroReduced
  /\ lates > 0

\* C11: in the end-to-end scenario ball is the default before 80 ms and has
\* size 18 after; phase is idle before 1400 ms, becomes rolling at 1400 ms,
\* dropping at 2850 ms and done at 3270 ms, after which the overlay is not
\* rendered.
C11_Timeline ==
  /\ [](heroStage = "mounted" =>
          /\ now < 80 => ball = DefaultBall
          /\ now > 80 => ball.size = 18
          /\ now < 1400 => phase = "idle"
          /\ (now > 1400 /\ now < 2850) => phase = "rolling"
          /\ (now > 2850 /\ now < 3270) => phase = "dropping"
          /\ now > 3270 => (phase = "done" /\ ~OverlayRendered))
  /\ [][/\ ball' # ball /\ ball = DefaultBall => now = 80
        /\ phase' # phase =>
             now = (CASE phase' = "rolling"  -> 1400
                      [] phase' = "dropping" -> 2850
                      [] phase' = "done"     -> 3270
                      [] OTHER               -> -1)]_vars

\* The scenario has run to the end and the clock has moved on.
C11_Witness ==
  /\ phase = "done"
  /\ now > 3270
  /\ ball.size = 18
  /\ ~OverlayRendered

\* The latest call of measure() found both boxes / missed one.
ReadOk   == lastRead # <<>> /\ lastRead[1] # <<>> /\ lastRead[2] # <<>>
ReadNull == lastRead # <<>> /\ (lastRead[1] = <<>> \/ lastRead[2] = <<>>)
ReadPr   == lastRead[1][1]
ReadSr   == lastRead[2][1]

\* n is 45% of h rounded to the nearest whole number, halves up.
Nearest45(n, h) == 100 * n - 50 <= 45 * h /\ 45 * h < 100 * n + 50

\* C12 as stated: a successful measurement yields size = max(45% of h, 12).
C12_SizeExact ==
  ReadOk => 100 * ball.size = Max(45 * ReadPr.height, 100 * 12)

\* C12 as amended: a successful measurement yields size = max(n, 12) with n
\* the whole number nearest to 45% of h (halves up); size is 12 for h = 10
\* and never below 12.
C12_SizeRounded ==
  ReadOk =>
    /\ \E n \in 0 .. ReadPr.height :
         Nearest45(n, ReadPr.height) /\ ball.size = (IF n >= 12 THEN n ELSE 12)
    /\ ReadPr.height = 10 => ball.size = 12
    /\ ball.size >= 12

\* A 30 px high target: 13.5 is rounded to 14.
C12_Witness == ReadOk /\ ReadPr.height = 30 /\ ball.size = 14

\* A step in which the 80 ms or the 1400 ms callback runs.
MeasuringCallbackRuns ==
  \E k \in 1 .. Len(timers) :
    /\ timers[k].cb \in {"measure", "start"}
    /\ timers[k].state = "pending"
    /\ timers'[k].state = "fired"

\* C13: a run of the 80 ms or 1400 ms callback whose measurement misses a
\* bounding box leaves ball and phase as they were.
C13_NullLeavesState ==
  [][(MeasuringCallbackRuns /\ (lastRead'[1] = <<>> \/ lastRead'[2] = <<>>)) =>
       ball' = ball /\ phase' = phase]_vars

\* The 80 ms measurement succeeded, the 1400 ms one missed a box: ball keeps
\* the 80 ms geometry and phase is idle.
C13_Witness ==
  /\ Len(timers) = 2
  /\ timers[2].state = "fired"
  /\ ReadNull
  /\ ball # DefaultBall
  /\ phase = "idle"

\* C14: a mounted instance, reduced motion off, that has no timer left to
\* fire has reached done (phase reaches done whatever the measurements give).
C14_ReachesDone ==
  (heroStage = "mounted" /\ ~heroReduced /\ Pending(timers) = {}) =>
    phase = "done"

\* C15: the overlay is rendered exactly while phase is not done; in done no
\* timer is pending and no step changes phase, ball or the timers.
C15_DoneIsFinal ==
  /\ [](/\ OverlayRendered <=> phase # "done"
        /\ OverlayRendered => wrapStyle.display = "block"
        /\ phase = "done" => Pending(timers) = {})
  /\ [][phase = "done" =>
          phase' = phase /\ ball' = ball /\ timers' = timers /\ lastRead' = lastRead]_vars

\* Done, still mounted, and the clock has moved on.
C15_Witness ==
  /\ phase = "done"
  /\ heroStage = "mounted"
  /\ ~OverlayRendered
  /\ Len(timers) = 4
  /\ now > timers[4].due

\* C16: while any setup without reduced motion of an instance has not seen
\* its two animation frames, no observer of the instance (set up with it or
\* before it) observes the element; and none observes while the marker is
\* unset.
C16_ObserveAfterFrames ==
  \A i \in SRIds : \A k \in 1 .. Len(runs[i]) :
    runs[i][k].observer = "observing" =>
      /\ dataReveal[i] # "unset"
      /\ \A j \in k .. Len(runs[i]) : runs[i][j].raf \in {"none", "ran"}

\* C17: once an intersecting notification has made the marker 'visible', no
\* observer of the instance observes the element.
C17_UnobservedOnceVisible ==
  \A i \in SRIds :
    dataReveal[i] = "visible" =>
      \A k \in 1 .. Len(runs[i]) : runs[i][k].observer # "observing"

\* C18 as stated: at most one timer of the instance is pending.
C18_OnePending == Cardinality(Pending(timers)) <= 1

\* C18 as amended: the 80 ms and the 1400 ms timer are both set at mount;
\* every later timer is set when its predecessor has fired, so at most two
\* timers are pending, at most one of them changes phase, and at most one
\* is pending once phase has left idle.
C18_ChainAfterMount ==
  /\ Cardinality(Pending(timers)) <= 2
  /\ Cardinality({k \in Pending(timers) : timers[k].cb # "measure"}) <= 1
  /\ \A k \in 1 .. Len(timers) : k > 2 => timers[k - 1].state = "fired"
  /\ phase # "idle" => Cardinality(Pending(timers)) <= 1

\* Dropping, with the last timer of the chain alone pending.
C18_Witness ==
  /\ phase = "dropping"
  /\ Pending(timers) = {4}

\* C19: a measured ball has startX = -(size + 16), and so lies fully left of
\* the container when idle.
C19_StartLeft ==
  ReadOk => ball.startX = -(ball.size + 16) /\ ball.startX + ball.size < 0

C19_Witness == ReadOk /\ ball.size = 18 /\ ball.startX = -34

\* C20: a measured ball is centred on the target box, in the container's
\* coordinates (top and targetX are in half pixels):
\*   targetX + size/2 = pr.left - sr.left + pr.width/2
\*   top     + size/2 = pr.top  - sr.top  + pr.height/2
C20_Centred ==
  ReadOk =>
    /\ ball.targetX + ball.size = 2 * (ReadPr.left - ReadSr.left) + ReadPr.width
    /\ ball.top + ball.size = 2 * (ReadPr.top - ReadSr.top) + ReadPr.height

\* A container offset in both axes and a residue that is not whole.
C20_Witness ==
  /\ ReadOk
  /\ ReadSr.left = 20 /\ ReadSr.top = 50
  /\ ReadPr.width = 9 /\ ReadPr.height = 30
  /\ ball.targetX = 2 * 280 - 5
  /\ phase = "rolling"

\* What belongs to one ScrollReveal instance, and to the HeroSection.
SRState(i) == <<srStage[i], direction[i], dataReveal[i], runs[i]>>
HeroState  == <<heroStage, heroReduced, phase, ball, timers>>

\* C21: with several ScrollReveal instances and the HeroSection alive
\* together, a step that changes anything of one instance (frame callback,
\* notification, timer firing, mount, unmount) leaves the marker, observers,
\* timers, phase and geometry of every other instance unchanged.
C21_Isolation ==
  [][/\ \A i \in SRIds :
          SRState(i)' # SRState(i) =>
            /\ \A j \in SRIds \ {i} : SRState(j)' = SRState(j)
            /\ HeroState' = HeroState
     /\ HeroState' # HeroState => \A i \in SRIds : SRState(i)' = SRState(i)]_vars

\* Three instances in the middle of their work: one revealed, one observing
\* and still hidden, the ball rolling.
C21_Witness ==
  /\ srStage[1] = "mounted" /\ dataReveal[1] = "visible"
  /\ srStage[2] = "mounted" /\ Hidden(2) /\ runs[2][1].observer = "observing"
  /\ heroStage = "mounted" /\ phase = "rolling" /\ Pending(timers) # {}

\* C22: the reduced-motion preference is read once per instance, at mount:
\* every run of a ScrollReveal instance's effect works with the value its
\* first run found, so a later change of the preference cannot alter what
\* the instance does.
C22_ReadOnce ==
  \A i \in SRIds : \A k \in 1 .. Len(runs[i]) :
    runs[i][k].reduced = runs[i][1].reduced

\* C23: phase goes from idle to rolling only in a step in which the 1400 ms
\* callback takes a successful measurement and writes it to ball; while
\* rolling, ball is that measurement and not the default of mount; and ball
\* is written only by the 80 ms and the 1400 ms callback, each of which runs
\* at most once.
C23_RollsOnFreshGeometry ==
  /\ [][(phase = "idle" /\ phase' # "idle") =>
          /\ phase' = "rolling"
          /\ timers[2].state = "pending" /\ timers'[2].state = "fired"
          /\ ReadOk'
          /\ <<ball'>> = measure(lastRead'[1], lastRead'[2])]_vars
  /\ [](phase = "rolling" =>
          /\ ReadOk
          /\ <<ball>> = measure(lastRead[1], lastRead[2])
          /\ ball # DefaultBall)
  /\ [][ball' # ball =>
          \E k \in {1, 2} : timers[k].state = "pending" /\ timers'[k].state = "fired"]_vars
  /\ [][\A k \in 1 .. Len(timers) :
          timers[k].state = "fired" => timers'[k].state = "fired"]_vars

\* Rolling on the geometry measured at 1400 ms, after the 80 ms measurement
\* had found no layout.
C23_Witness ==
  /\ phase = "rolling"
  /\ timers[1].state = "fired" /\ timers[2].state = "fired"
  /\ ReadOk
  /\ ball.size = 14

\* C24: while the instance is mounted (reduced motion off) and its latest
\* measurement was unavailable, a callback that measures is still to come.
C24_RetryScheduled ==
  (heroStage = "mounted" /\ ~heroReduced /\ ReadNull) =>
    \E k \in Pending(timers) : timers[k].cb \in {"measure", "start"}

\* The overlay as it is on screen: rendered and opaque / rendered at startX
\* (a style's left is in half pixels).
OverlayOpaque  == OverlayRendered /\ wrapStyle.opacity = 1
OverlayAtStart == OverlayRendered /\ wrapStyle.left = 2 * ball.startX

\* C25: the rendered style is a function of phase and ball: idle is left =
\* startX with opacity 0, rolling is left = targetX with opacity 1, dropping
\* is left = targetX with opacity 0; the overlay is opaque exactly when phase
\* is rolling and is at startX exactly when phase is idle.
C25_StyleOfPhase ==
  /\ phase = "idle" =>
       wrapStyle.left = 2 * ball.startX /\ wrapStyle.opacity = 0
  /\ phase = "rolling" =>
       wrapStyle.left = ball.targetX /\ wrapStyle.opacity = 1
  /\ phase = "dropping" =>
       wrapStyle.left = ball.targetX /\ wrapStyle.opacity = 0
  /\ OverlayOpaque <=> phase = "rolling"
  /\ OverlayAtStart <=> phase = "idle"

\* Dropping at the measured target, transparent.
C25_Witness ==
  /\ phase = "dropping"
  /\ ReadOk
  /\ wrapStyle.left = ball.targetX
  /\ ~OverlayOpaque /\ ~OverlayAtStart

\* C26: a mounted element that carries the hidden marker has an observer
\* that observes it or a pending animation-frame callback that will start
\* observation, so an intersecting notification can still reveal it.
C26_NeverStranded ==
  \A i \in SRIds :
    (srStage[i] = "mounted" /\ Hidden(i)) =>
      \E k \in 1 .. Len(runs[i]) :
        runs[i][k].observer = "observing" \/ runs[i][k].raf \in {"first", "second"}

\* C27: a notification that is not intersecting leaves the marker unchanged
\* and the element observed, and the marker of a mounted instance is unset,
\* the current `direction` or 'visible'.
C27_MarkerDomain ==
  /\ [](\A i \in SRIds :
          srStage[i] = "mounted" => dataReveal[i] \in {"unset", direction[i], "visible"})
  /\ [][\A i \in SRIds, k \in 1 .. MaxRuns :
          SRNotify(i, k, FALSE) =>
            dataReveal'[i] = dataReveal[i] /\ runs'[i][k].observer = "observing"]_vars

\* C28: in every reachable state, the default geometry of mount included,
\* size >= 12 and startX + size < 0.
C28_GeometryLeft == ball.size >= 12 /\ ball.startX + ball.size < 0

\* The default geometry is still there after both measurements failed.
C28_Witness ==
  /\ heroStage = "mounted"
  /\ ball = DefaultBall
  /\ ReadNull
  /\ Pending(timers) = {}
  /\ timers # <<>>

\* C29: once the effect has run for the current mobileOpen, the body scroll
\* lock is on exactly when the menu is open; closeMenu closes, the hamburger
\* inverts; after unmount the body overflow is '' whatever mobileOpen was.
C29_ScrollLock ==
  /\ []((headerStage = "mounted" /\ effectSeen = mobileOpen) =>
          (bodyOverflow = "hidden" <=> mobileOpen))
  /\ [](bodyOverflow \in {"", "hidden"})
  /\ [](headerStage = "unmounted" => bodyOverflow = "")
  /\ [][/\ HeaderToggle => mobileOpen' = ~mobileOpen
        /\ (\E src \in CloseSources : HeaderCloseMenu(src)) => ~mobileOpen']_vars

\* Unmounted while the menu was open and the scroll was locked.
C29_Witness ==
  /\ headerStage = "unmounted"
  /\ mobileOpen /\ effectSeen
  /\ bodyOverflow = ""

\* The ids of the events that are shown.
ShownIds == {filtered[j].id : j \in 1 .. Len(filtered)}

MissingStatus(e) == e.status = <<>> \/ e.status = <<"">>

\* C30: the active filter is 'upcoming' until a tab is clicked and then the
\* tab clicked last; 'all' shows every event; 'upcoming' shows exactly the
\* events whose status is upcoming, registration_open, waitlist or missing;
\* 'past' exactly those whose status is completed or cancelled; no event is
\* under both; the empty-state panel is shown exactly when nothing is shown.
C30_Filtering ==
  /\ activeFilter = (IF lastClick = "none" THEN "upcoming" ELSE lastClick)
  /\ activeFilter = "all" => filtered = events
  /\ activeFilter = "upcoming" =>
       ShownIds = {events[k].id : k \in {j \in 1 .. Len(events) :
                     \/ MissingStatus(events[j])
                     \/ events[j].status \in {<<"upcoming">>, <<"registration_open">>, <<"waitlist">>}}}
  /\ activeFilter = "past" =>
       ShownIds = {events[k].id : k \in {j \in 1 .. Len(events) :
                     events[j].status \in {<<"completed">>, <<"cancelled">>}}}
  /\ \A k \in 1 .. Len(events) :
       ~(Shows("upcoming", events[k]) /\ Shows("past", events[k]))
  /\ GridRender.panel <=> ShownIds = {}
  /\ ~GridRender.panel => GridRender.cards = [j \in 1 .. Len(filtered) |-> filtered[j].id]

\* 'past' is active after a click; of an event without status and a completed
\* one, only the completed one is shown.
C30_Witness ==
  /\ lastClick = "past" /\ activeFilter = "past"
  /\ Len(events) = 2
  /\ events[1].status = <<>> /\ events[2].status = <<"completed">>
  /\ ShownIds = {2}
  /\ ~GridRender.panel

==========================================================================
